---- MODULE Spec2Model ----
(***************************************************************************)
(* Model of the gesture-driven holiday tree: the App component (start      *)
(* action, detection loop, manual overrides, unmount cleanup), the         *)
(* VisionService singleton (initialize, startCamera, detect, stop) and     *)
(* the per-entity animators (foliage, ornament sets, photos, topper).      *)
(*                                                                         *)
(* Numbers.  Landmark coordinates are thousandths of the normalized video  *)
(* frame.  A gesture position is a numerator over PosDen.  A progress      *)
(* scalar is an exact decimal fraction num/den whose numerator and         *)
(* denominator are arbitrary-precision naturals (little-endian digit       *)
(* sequences in base BigBase), so the relaxation p += (dest - p) * speed   *)
(* is computed as over the reals, without the rounding of doubles.         *)
(***************************************************************************)
EXTENDS Integers, Sequences, FiniteSets, TLC

\* ------------------------------------------------------------------ bounds
\* The video clock takes the values 0..MaxVideoTime.
MaxVideoTime == 2
\* Render frames modelled per behaviour.
MaxFrames == 5
\* A manifest lists at most MaxPhotos file names.
MaxPhotos == 7
\* Camera frames modelled per behaviour.
MaxCameraFrames == 2
\* Calls of getConePoint modelled per behaviour.
MaxConeCalls == 1

\* --------------------------------------------------------------- constants
IDLE == "IDLE"
LOADING == "LOADING"
READY == "READY"
RUNNING == "RUNNING"
ERROR == "ERROR"
AppState == {IDLE, LOADING, READY, RUNNING, ERROR}

CHAOS == "CHAOS"
FORMED == "FORMED"
TreeState == {CHAOS, FORMED}

\* Fingertip landmark indices (0-based, as in the source).
tips == <<4, 8, 12, 16, 20>>

\* Coordinates are in thousandths: 1.0 is CoordScale.
CoordScale == 1000
\* Landmarks per hand: indices 0 .. 20, the last one a fingertip.
LandmarkCount == tips[Len(tips)] + 1
\* Denominator of a gesture position: x = xNum / PosDen.
PosDen == LandmarkCount * CoordScale
\* The openness threshold 0.25, in thousandths.
OpenThreshold == 250

\* The absent value of a nullable field.
Null == [kind |-> "null"]

VARIABLES
    \* App component state (useState)
    appState, treeState, gesture, errorMsg,
    \* the values handed to setAppState so far, in order
    appLog,
    \* App refs and lifecycle
    mounted, videoRef, requestRef, rafPending, pc,
    \* VisionService fields
    handLandmarker, video, lastVideoTime, isRunning,
    \* the <video> element and its stream
    srcObject, tracksLive, videoWidth, videoHeight, currentTime,
    \* environment: navigator.mediaDevices.getUserMedia exists
    hasGetUserMedia,
    \* history: last command given, what the last loop tick did, the error
    \* caught by the start action, number of initialize() calls
    lastCommand, tick, caught, initCalls,
    \* animators: progress scalar of each, render frames so far, and the
    \* history counter formedRun (see RenderFrame)
    progress, frames, formedRun,
    \* PolaroidPhotos: what the manifest fetch will answer, the position of
    \* the manifest effect, the files and items state, the photos memo, the
    \* runs of the preload effect, and whether the component is mounted
    manifest, fetchPc, files, items, photos, preloads, photosMounted,
    \* App: the photo shown full-size, and the last click on the overlay
    selectedPhoto, lastClick,
    \* Scene: the camera's position, the target of its last frame, the
    \* gesture prop that frame saw and the number of frames so far
    camera,
    \* utils/math: the last call of getConePoint, its arguments and its result
    conePoint

appVars == <<appState, appLog, treeState, gesture, errorMsg>>
refVars == <<mounted, videoRef, requestRef, rafPending, pc>>
serviceVars == <<handLandmarker, video, lastVideoTime, isRunning>>
videoVars == <<srcObject, tracksLive, videoWidth, videoHeight, currentTime>>
histVars == <<lastCommand, tick, caught, initCalls>>
animVars == <<progress, frames, formedRun>>
photoVars == <<manifest, fetchPc, files, items, photos, preloads, photosMounted>>
overlayVars == <<selectedPhoto, lastClick>>
sceneVars == <<camera, conePoint>>
vars == <<appVars, refVars, serviceVars, videoVars, hasGetUserMedia, histVars, animVars,
          photoVars, overlayVars, sceneVars>>

\* ------------------------------------------------------- inputs (bounded)
\* A landmark list: wrist and non-tip landmarks at (wx, wy), every fingertip
\* at (wx + dx, wy + dy).  Index i of the source is element i + 1.
MkHand(wx, wy, dx, dy) ==
    [i \in 1..LandmarkCount |->
        IF \E k \in 1..Len(tips) : tips[k] + 1 = i
        THEN [x |-> wx + dx, y |-> wy + dy]
        ELSE [x |-> wx, y |-> wy]]

\* A landmark list whose fingertip k lies dys[k] below the wrist.
MkFingers(wx, wy, dys) ==
    [i \in 1..LandmarkCount |->
        IF \E k \in 1..Len(tips) : tips[k] + 1 = i
        THEN [x |-> wx, y |-> wy + dys[CHOOSE k \in 1..Len(tips) : tips[k] + 1 = i]]
        ELSE [x |-> wx, y |-> wy]]

\* Hands the model can see: spread 0.30, spread 0.10, spread exactly 0.25,
\* and two uneven hands: four fingers at 0.30 and one at 0 (average 0.24),
\* one finger at 0.50 and four at 0.20 (average 0.26).
Hands ==
    { MkHand(500, 800, 0, -300),
      MkHand(200, 500, 100, 0),
      MkHand(800, 400, -150, 200),
      MkFingers(500, 300, <<0, 300, 300, 300, 300>>),
      MkFingers(400, 200, <<500, 200, 200, 200, 200>>) }

\* What detectForVideo does on a call: throws, or returns results.landmarks
\* (a list of at most one hand, numHands: 1).
Inferences ==
    {[kind |-> "throw", landmarks |-> <<>>]}
    \cup {[kind |-> "results", landmarks |-> <<>>]}
    \cup {[kind |-> "results", landmarks |-> <<h>>] : h \in Hands}

CameraErrorNames ==
    {"NotFoundError", "NotAllowedError", "NotReadableError",
     "OverconstrainedError", "SecurityError"}

\* Values a rejected await can throw: e.name and e.message ("" when absent).
Errors ==
    [kind : {"error"},
     name : CameraErrorNames \cup {"TypeError", ""},
     message : {"", "load failed"}]

\* ------------------------------------------------- VisionService.detect
\* Math.sqrt on the squared distances the model feeds it (perfect squares).
RECURSIVE SqrtRange(_, _, _)
SqrtRange(n, lo, hi) ==
    IF lo = hi THEN lo
    ELSE LET mid == (lo + hi + 1) \div 2
         IN IF mid * mid <= n THEN SqrtRange(n, mid, hi) ELSE SqrtRange(n, lo, mid - 1)

Sqrt(n) == SqrtRange(n, 0, 2 * CoordScale)

\* Distance from the wrist (landmark 0) to landmark idx.
Dist(landmarks, idx) ==
    LET wrist == landmarks[1]
        tip == landmarks[idx + 1]
    IN Sqrt((tip.x - wrist.x) * (tip.x - wrist.x)
            + (tip.y - wrist.y) * (tip.y - wrist.y))

\* totalDist: the tips.forEach accumulation, from tip number k on.
RECURSIVE TotalDist(_, _)
TotalDist(landmarks, k) ==
    IF k > Len(tips) THEN 0
    ELSE Dist(landmarks, tips[k]) + TotalDist(landmarks, k + 1)

\* Variant: the threshold itself counts as open, avgDist >= 0.25.
IsOpenInclusive(landmarks) == TotalDist(landmarks, 1) >= OpenThreshold * Len(tips)

\* isOpen = avgDist > 0.25 with avgDist = totalDist / tips.length.
IsOpen(landmarks) == TotalDist(landmarks, 1) > OpenThreshold * Len(tips)

\* sumX and sumY: the landmarks.forEach accumulation, from element i on.
RECURSIVE SumX(_, _)
SumX(landmarks, i) ==
    IF i > Len(landmarks) THEN 0 ELSE landmarks[i].x + SumX(landmarks, i + 1)

RECURSIVE SumY(_, _)
SumY(landmarks, i) ==
    IF i > Len(landmarks) THEN 0 ELSE landmarks[i].y + SumY(landmarks, i + 1)

\* normX = -((sumX / landmarks.length) - 0.5) * 2, as a numerator over
\* landmarks.length * CoordScale (= PosDen for a full hand).
NormX(landmarks) == Len(landmarks) * CoordScale - 2 * SumX(landmarks, 1)

NormY(landmarks) == Len(landmarks) * CoordScale - 2 * SumY(landmarks, 1)

\* The result of classifying what the inference returned.
Classify(inf) ==
    IF Len(inf.landmarks) > 0
    THEN LET landmarks == inf.landmarks[1]
         IN [kind |-> "result", isOpen |-> IsOpen(landmarks),
             x |-> NormX(landmarks), y |-> NormY(landmarks), detected |-> TRUE]
    ELSE [kind |-> "result", isOpen |-> FALSE, x |-> 0, y |-> 0, detected |-> FALSE]

\* Variant: a thrown inference yields a zeroed reading instead of null.
DetectZeroOnThrow(inf, running) ==
    IF ~handLandmarker \/ ~video \/ ~running
    THEN [ret |-> Null, lvt |-> lastVideoTime, inferred |-> FALSE]
    ELSE IF videoWidth = 0 \/ videoHeight = 0
    THEN [ret |-> Null, lvt |-> lastVideoTime, inferred |-> FALSE]
    ELSE IF currentTime # lastVideoTime
    THEN [ret |-> IF inf.kind = "throw"
                  THEN [kind |-> "result", isOpen |-> FALSE, x |-> 0, y |-> 0,
                        detected |-> FALSE]
                  ELSE Classify(inf),
          lvt |-> currentTime, inferred |-> TRUE]
    ELSE [ret |-> Null, lvt |-> lastVideoTime, inferred |-> FALSE]

\* Variant: the video timestamp is not compared with the last processed one.
DetectEveryCall(inf, running) ==
    IF ~handLandmarker \/ ~video \/ ~running
    THEN [ret |-> Null, lvt |-> lastVideoTime, inferred |-> FALSE]
    ELSE IF videoWidth = 0 \/ videoHeight = 0
    THEN [ret |-> Null, lvt |-> lastVideoTime, inferred |-> FALSE]
    ELSE [ret |-> IF inf.kind = "throw" THEN Null ELSE Classify(inf),
          lvt |-> currentTime, inferred |-> TRUE]

\* Variant: no test of the video's dimensions.
DetectNoSizeCheck(inf, running) ==
    IF ~handLandmarker \/ ~video \/ ~running
    THEN [ret |-> Null, lvt |-> lastVideoTime, inferred |-> FALSE]
    ELSE IF currentTime # lastVideoTime
    THEN [ret |-> IF inf.kind = "throw" THEN Null ELSE Classify(inf),
          lvt |-> currentTime, inferred |-> TRUE]
    ELSE [ret |-> Null, lvt |-> lastVideoTime, inferred |-> FALSE]

\* detect(): ret is the returned value (Null for null), lvt the value of
\* lastVideoTime afterwards, inferred whether detectForVideo was called.
\* `running` is this.isRunning at the time of the call.
Detect(inf, running) ==
    IF ~handLandmarker \/ ~video \/ ~running
    THEN [ret |-> Null, lvt |-> lastVideoTime, inferred |-> FALSE]
    ELSE IF videoWidth = 0 \/ videoHeight = 0
    THEN [ret |-> Null, lvt |-> lastVideoTime, inferred |-> FALSE]
    ELSE IF currentTime # lastVideoTime
    THEN [ret |-> IF inf.kind = "throw" THEN Null ELSE Classify(inf),
          lvt |-> currentTime, inferred |-> TRUE]
    ELSE [ret |-> Null, lvt |-> lastVideoTime, inferred |-> FALSE]

\* ------------------------------------------- exact arithmetic (naturals)
\* A natural number is its digits in base BigBase (three decimal places, as
\* the speed literals have), least significant first, without leading zeros;
\* zero is the empty sequence.  Carries are found by
\* looking back to the nearest digit that decides them, so that sums need no
\* digit-by-digit recursion.
BigBase == 10 * 10 * 10

BigZero == <<>>
BigOne == <<1>>

Max(x, y) == IF x >= y THEN x ELSE y

\* Drop the zero digits at the most significant end.
BigNorm(a) ==
    LET n == Len(a)
    IN IF n = 0 THEN <<>>
       ELSE IF a[n] # 0 THEN a
       ELSE SubSeq(a, 1, CHOOSE m \in 0..n :
                             /\ m = 0 \/ a[m] # 0
                             /\ \A j \in (m + 1)..n : a[j] = 0)

Digit(a, i) == IF i <= Len(a) THEN a[i] ELSE 0

\* The digits f[1], ..., f[n] as a sequence.
Digits(f, n) == SubSeq(f, 1, n)

\* The carry into position i of the digit-wise sums s.
CarryIn(s, i) ==
    IF i = 1 THEN 0
    ELSE IF s[i - 1] # BigBase - 1 THEN (IF s[i - 1] >= BigBase THEN 1 ELSE 0)
    ELSE IF \E j \in 1..(i - 2) :
                /\ s[j] >= BigBase
                /\ \A k \in (j + 1)..(i - 2) : s[k] = BigBase - 1
    THEN 1 ELSE 0

BigAdd(a, b) ==
    IF a = <<>> THEN b
    ELSE IF b = <<>> THEN a
    ELSE LET n == Max(Len(a), Len(b)) + 1
             s == Digits([i \in 1..n |-> Digit(a, i) + Digit(b, i)], n)
         IN BigNorm(Digits([i \in 1..n |-> (s[i] + CarryIn(s, i)) % BigBase], n))

\* The borrow from position i of the digit-wise differences t.
BorrowIn(t, i) ==
    IF i = 1 THEN 0
    ELSE IF t[i - 1] # 0 THEN (IF t[i - 1] < 0 THEN 1 ELSE 0)
    ELSE IF \E j \in 1..(i - 2) :
                /\ t[j] < 0
                /\ \A k \in (j + 1)..(i - 2) : t[k] = 0
    THEN 1 ELSE 0

\* a - b for a >= b.
BigSub(a, b) ==
    IF b = <<>> THEN a
    ELSE LET n == Len(a)
             t == Digits([i \in 1..n |-> a[i] - Digit(b, i)], n)
         IN BigNorm(Digits([i \in 1..n |-> (t[i] - BorrowIn(t, i) + BigBase) % BigBase], n))

\* a * c for one digit c: the low parts of the digit products plus their high
\* parts one position up.
BigMulSmall(a, c) ==
    IF a = <<>> \/ c = 0 THEN <<>>
    ELSE LET n == Len(a) + 1
             prod == Digits([i \in 1..n |-> IF i < n THEN a[i] * c ELSE 0], n)
             s == Digits([i \in 1..n |->
                             (prod[i] % BigBase)
                             + (IF i > 1 THEN prod[i - 1] \div BigBase ELSE 0)], n)
         IN BigNorm(Digits([i \in 1..n |-> (s[i] + CarryIn(s, i)) % BigBase], n))

\* a <= b: shorter is smaller; else the most significant differing digit.
BigLeq(a, b) ==
    \/ Len(a) < Len(b)
    \/ /\ Len(a) = Len(b)
       /\ \/ a = b
          \/ LET m == CHOOSE k \in 1..Len(a) :
                           /\ a[k] # b[k]
                           /\ \A j \in (k + 1)..Len(a) : a[j] = b[j]
             IN a[m] < b[m]

\* Digits lo..hi of a \div c, working down from hi with remainder rem: d the
\* quotient digits, r the remainder left.
RECURSIVE DivRange(_, _, _, _, _)
DivRange(a, c, lo, hi, rem) ==
    IF lo = hi
    THEN LET cur == rem * BigBase + a[lo]
         IN [d |-> <<cur \div c>>, r |-> cur % c]
    ELSE LET mid == (lo + hi) \div 2
             U == DivRange(a, c, mid + 1, hi, rem)
         IN \* the upper half is finished before the lower half starts
            IF U.r >= c THEN U
            ELSE LET L == DivRange(a, c, lo, mid, U.r)
                 IN [d |-> L.d \o U.d, r |-> L.r]

BigDivSmall(a, c) ==
    IF a = <<>> THEN <<>> ELSE BigNorm(DivRange(a, c, 1, Len(a), 0).d)

BigModSmall(a, c) ==
    IF a = <<>> THEN 0 ELSE DivRange(a, c, 1, Len(a), 0).r

\* a * b: the sum over digits lo..hi of a of a[i] * b * BigBase^(i-1).
RECURSIVE MulBigRange(_, _, _, _)
MulBigRange(a, b, lo, hi) ==
    IF lo = hi
    THEN LET q == BigMulSmall(b, a[lo])
         IN IF q = <<>> THEN <<>> ELSE [i \in 1..(lo - 1) |-> 0] \o q
    ELSE LET mid == (lo + hi) \div 2
         IN BigAdd(MulBigRange(a, b, lo, mid), MulBigRange(a, b, mid + 1, hi))

\* a * b, summed over the digits of b.
BigMul(a, b) ==
    IF a = <<>> \/ b = <<>> THEN <<>> ELSE MulBigRange(b, a, 1, Len(b))

\* ------------------------------------------------------------ fractions
\* A progress value is num / den with den a power of the class's speed
\* denominator d, in lowest such terms (so equal values are equal records).
Zero == [num |-> BigZero, den |-> BigOne]

RECURSIVE Reduce(_, _)
Reduce(p, d) ==
    IF p.num = BigZero THEN Zero
    ELSE IF p.den = BigOne \/ BigModSmall(p.num, d) # 0 THEN p
    ELSE Reduce([num |-> BigDivSmall(p.num, d), den |-> BigDivSmall(p.den, d)], d)

\* a <= b for fractions.
RatLeq(a, b) == BigLeq(BigMul(a.num, b.den), BigMul(b.num, a.den))

\* ------------------------------------------------------------ animators
\* The components with a progress scalar: Foliage, the three Ornaments sets of
\* the Scene (gold balls, red balls, gifts), PolaroidPhotos and Topper.
Animators == {"foliage", "ballGold", "ballRed", "gift", "photos", "topper"}

\* Instances per ornament set: count = type === 'ball' ? 50 : 30.
BallCount == 50
GiftCount == 30

Count(a) == IF a = "gift" THEN GiftCount ELSE BallCount

\* The class speed in thousandths: 0.025 for balls, 0.015 for gifts, 0.02 for
\* foliage, photos and topper.
Speed(a) ==
    IF a \in {"ballGold", "ballRed"} THEN [num |-> 25, den |-> BigBase]
    ELSE IF a = "gift" THEN [num |-> 15, den |-> BigBase]
    ELSE [num |-> 20, den |-> BigBase]

\* dest = isForming ? 1 : 0
Dest(ts) == IF ts = FORMED THEN 1 ELSE 0

\* Variant: the current progress is not subtracted, p += dest * speed.
RelaxNoDecay(p, dest, sp) ==
    [num |-> BigAdd(BigMulSmall(p.num, sp.den), BigMulSmall(p.den, dest * sp.num)),
     den |-> BigMulSmall(p.den, sp.den)]

\* p += (dest - p) * speed, on num/den (not reduced).
Relax(p, dest, sp) ==
    [num |-> IF dest = 1
             THEN BigAdd(BigMulSmall(p.num, sp.den),
                         BigMulSmall(BigSub(p.den, p.num), sp.num))
             ELSE BigSub(BigMulSmall(p.num, sp.den), BigMulSmall(p.num, sp.num)),
     den |-> BigMulSmall(p.den, sp.den)]

\* Variant: the interpolation weights are exchanged, t * x + (1 - t) * y.
LerpSwapped(p, dest, sp) ==
    [num |-> BigAdd(BigMulSmall(p.num, sp.num),
                    BigMulSmall(p.den, dest * (sp.den - sp.num))),
     den |-> BigMulSmall(p.den, sp.den)]

\* THREE.MathUtils.lerp(x, y, t) = (1 - t) * x + t * y with y = dest.
Lerp(p, dest, sp) ==
    [num |-> BigAdd(BigMulSmall(p.num, sp.den - sp.num),
                    BigMulSmall(p.den, dest * sp.num)),
     den |-> BigMulSmall(p.den, sp.den)]

\* Foliage useFrame: uProgress = lerp(uProgress, targetProgress, 0.02).
FoliageFrame(p, ts) == Reduce(Lerp(p, Dest(ts), Speed("foliage")), Speed("foliage").den)

\* Ornaments useFrame: iterations lo..hi of the instance loop applied to p;
\* the progress update sits inside the loop body, once per instance.
RECURSIVE OrnamentsLoop(_, _, _, _, _)
OrnamentsLoop(p, ts, a, lo, hi) ==
    IF lo = hi THEN Relax(p, Dest(ts), Speed(a))
    ELSE LET mid == (lo + hi) \div 2
             q == OrnamentsLoop(p, ts, a, lo, mid)
         IN \* q is computed before the second half starts (den is never 0)
            IF q.den = BigZero THEN q ELSE OrnamentsLoop(q, ts, a, mid + 1, hi)

OrnamentsFrame(p, ts, a) ==
    Reduce(OrnamentsLoop(p, ts, a, 0, Count(a) - 1), Speed(a).den)

\* PolaroidPhotos useFrame: progressRef.current += (dest - current) * 0.02.
PhotosFrame(p, ts) == Reduce(Relax(p, Dest(ts), Speed("photos")), Speed("photos").den)

\* Topper useFrame: userData.progress += (dest - progress) * speed.
TopperFrame(p, ts) == Reduce(Relax(p, Dest(ts), Speed("topper")), Speed("topper").den)

\* The useFrame callback of animator a.
AnimatorFrame(a, p, ts) ==
    IF a = "foliage" THEN FoliageFrame(p, ts)
    ELSE IF a = "photos" THEN PhotosFrame(p, ts)
    ELSE IF a = "topper" THEN TopperFrame(p, ts)
    ELSE OrnamentsFrame(p, ts, a)

\* ---------------------------------------------------------------- Init
\* No inference was reached.
\* ------------------------------------------------------- photo ornaments
\* Heights are integers in units of 1/HeightScale; Math.random() is drawn in
\* thousandths from RandomDraws, a subset of [0, 1).
HeightScale == 10000
RandomScale == 1000
RandomDraws == {0, 999}
TreeHeight == 12 * HeightScale
MinY == 18000
MaxY == TreeHeight - 28000

Clamp(v, lo, hi) == IF v < lo THEN lo ELSE IF v > hi THEN hi ELSE v

\* The k-th file name of a manifest: a stem and an extension.
FileName(k) == [stem |-> k, ext |-> "jpg"]
FileList(n) == [k \in 1..n |-> FileName(k)]

\* What fetching and parsing the manifest can give: the fetch rejects, the
\* response is not ok, the body is not JSON, the JSON is an array, an object
\* with a files array, or an object without one.
Manifests ==
    { [kind |-> k, list |-> <<>>] : k \in {"fetchThrows", "notOk", "badJson", "noList"} }
    \cup { [kind |-> k, list |-> FileList(n)] : k \in {"array", "object"}, n \in 0..MaxPhotos }

\* The value handed to setFiles.
ManifestFiles(m) == IF m.kind \in {"array", "object"} THEN m.list ELSE <<>>

\* files.map(...): id p{idx+1}, the URL under figs-jpeg, the name without
\* its extension.
Candidates(fs) ==
    [idx \in 1..Len(fs) |->
        [id |-> idx, src |-> [dir |-> "figs-jpeg", file |-> fs[idx]], caption |-> fs[idx].stem]]

LoadImageAlways(c, ok) == c
\* One image load: resolves to the candidate on load, to null on error.
LoadImage(c, ok) == IF ok THEN c ELSE Null

\* loaded.filter(Boolean)
FilterLoaded(loaded) == SelectSeq(loaded, LAMBDA c : c # Null)

\* The height of photo i (from 0) of n for the draw r, as a numerator over
\* 2 * n: clamp(minY + (maxY - minY) * (i + 0.5) / n + (r - 0.5) * 1.2, minY, maxY).
YInternal(i, n, r) ==
    LET jitter == (((r * (HeightScale \div RandomScale)) - (HeightScale \div 2)) * 12) \div 10
    IN  Clamp(2 * n * MinY + (MaxY - MinY) * (2 * i + 1) + 2 * n * jitter,
              2 * n * MinY, 2 * n * MaxY)

\* The photos memo: one photo per item, in order; targetPos.y is
\* y - treeHeight / 2 + verticalBias + yShift of the clamped height.
PhotosOf(its, draws) ==
    [k \in 1..Len(its) |->
        [id |-> its[k].id, src |-> its[k].src, caption |-> its[k].caption,
         y |-> [num |-> YInternal(k - 1, Len(its), draws[k]), den |-> 2 * Len(its)],
         targetY |-> [num |-> Clamp(YInternal(k - 1, Len(its), draws[k]), 0,
                                    2 * Len(its) * TreeHeight)
                               - Len(its) * TreeHeight
                               + 2 * Len(its) * HeightScale
                               + 2 * Len(its) * 5 * HeightScale,
                      den |-> 2 * Len(its)]]]

NewPreload(fs) ==
    [candidates |-> Candidates(fs), cancelled |-> FALSE, settled |-> FALSE, ok |-> <<>>]

\* ------------------------------------------------------- getConePoint
\* Small fractions n / d in lowest terms with d > 0.
Abs(n) == IF n < 0 THEN -n ELSE n

RECURSIVE GCD(_, _)
GCD(a, b) == IF b = 0 THEN a ELSE GCD(b, a % b)

Frac(n, d) ==
    LET g == GCD(Abs(n), Abs(d))
        sign == IF d < 0 THEN -1 ELSE 1
    IN  [n |-> (sign * n) \div g, d |-> (sign * d) \div g]

\* Sums and comparisons go through the least common denominator and
\* products cancel crosswise first, which keeps the intermediate integers small.
FracAdd(a, b) ==
    LET g == GCD(a.d, b.d)
    IN  Frac(a.n * (b.d \div g) + b.n * (a.d \div g), (a.d \div g) * b.d)
FracSub(a, b) == FracAdd(a, [n |-> -b.n, d |-> b.d])
FracMul(a, b) ==
    LET p == Frac(a.n, b.d)
        q == Frac(b.n, a.d)
    IN  [n |-> p.n * q.n, d |-> p.d * q.d]
FracDiv(a, b) == FracMul(a, Frac(b.d, b.n))
FracLeq(a, b) ==
    LET g == GCD(a.d, b.d)
    IN  a.n * (b.d \div g) <= b.n * (a.d \div g)
FracLess(a, b) ==
    LET g == GCD(a.d, b.d)
    IN  a.n * (b.d \div g) < b.n * (a.d \div g)
\* Math.sqrt of a fraction whose terms are perfect squares.
FracSqrt(a) == Frac(Sqrt(a.n), Sqrt(a.d))

\* The arguments of getConePoint: height > 0, maxRadius >= 0, verticalBias.
ConeHeights == {Frac(1, 2), Frac(1, 1), Frac(12, 1)}
ConeRadii == {Frac(0, 1), Frac(18, 5), Frac(4, 1)}
ConeBiases == {Frac(0, 1), Frac(1, 1)}
\* Values of Math.random(), in [0, 1); the squares are the ones drawn for
\* the radius.
UnitDraws == {Frac(0, 1), Frac(1, 2), Frac(9, 10)}
SquareDraws == {Frac(0, 1), Frac(1, 4), Frac(81, 100)}
\* Math.cos(angle) and Math.sin(angle) of the drawn angle: a point of the
\* unit circle, here one with rational coordinates.
Directions ==
    { [cos |-> Frac(c, 5), sin |-> Frac(s, 5)] :
        <<c, s>> \in {<<5, 0>>, <<3, 4>>, <<-4, 3>>, <<0, -5>>} }

GetConePointNoTaper(height, maxRadius, verticalBias, u1, u3, dir) ==
    LET y == FracMul(u1, height)
        r == FracMul(FracSqrt(u3), maxRadius)
    IN  [x |-> FracMul(r, dir.cos),
         y |-> FracAdd(FracSub(y, FracDiv(height, Frac(2, 1))), verticalBias),
         z |-> FracMul(r, dir.sin)]
\* getConePoint with u1, u3 and dir the three random draws.
GetConePoint(height, maxRadius, verticalBias, u1, u3, dir) ==
    LET y == FracMul(u1, height)
        rAtY == FracMul(FracSub(Frac(1, 1), FracDiv(y, height)), maxRadius)
        r == FracMul(FracSqrt(u3), rAtY)
    IN  [x |-> FracMul(r, dir.cos),
         y |-> FracAdd(FracSub(y, FracDiv(height, Frac(2, 1))), verticalBias),
         z |-> FracMul(r, dir.sin)]

\* ------------------------------------------------------- camera
\* A JavaScript number is NaN or a fraction num / den; undefined is what
\* reading an absent property gives.
NaN == [kind |-> "NaN"]
Undefined == [kind |-> "undefined"]
Num(n, d) == [kind |-> "num", num |-> n, den |-> d]

\* obj.name, for an object with or without that property.
Property(obj, name) == IF name \in DOMAIN obj THEN obj[name] ELSE Undefined

\* const { x, y } = gesture || { x: 0, y: 0 }
Destructure(g) ==
    IF g = Null THEN [x |-> Num(0, 1), y |-> Num(0, 1)]
    ELSE [x |-> Property(g, "x"), y |-> Property(g, "y")]

\* Math.sin(x * 0.5) * 25 and Math.cos(x * 0.5) * 25: NaN for undefined or
\* NaN, exact at 0, and otherwise a term naming the function and argument.
Radius == 25
Trig(fn, x) ==
    IF x \in {Undefined, NaN} THEN NaN
    ELSE IF x.num = 0 THEN (IF fn = "sin" THEN Num(0, 1) ELSE Num(Radius, 1))
    ELSE [kind |-> "term", fn |-> fn, arg |-> x]

\* 6 + y * 5
TargetY(y) ==
    IF y \in {Undefined, NaN} THEN NaN ELSE Num(6 * y.den + 5 * y.num, y.den)

CameraTarget(p) == [x |-> Trig("sin", p.x), y |-> TargetY(p.y), z |-> Trig("cos", p.x)]

\* Vector3.lerp, one component: p + (t - p) * 0.05.
LerpComponent(p, t) ==
    IF p = NaN \/ t = NaN THEN NaN
    ELSE IF p.kind = "num" /\ t.kind = "num"
    THEN Num(19 * p.num * t.den + t.num * p.den, 20 * p.den * t.den)
    ELSE [kind |-> "term", fn |-> "lerp", arg |-> <<p, t>>]

PositionLerp(pos, target) ==
    [x |-> LerpComponent(pos.x, target.x),
     y |-> LerpComponent(pos.y, target.y),
     z |-> LerpComponent(pos.z, target.z)]

\* <PerspectiveCamera position={[0, 4, 25]}>
InitialPosition == [x |-> Num(0, 1), y |-> Num(4, 1), z |-> Num(Radius, 1)]

NoInference == [kind |-> "none", landmarks |-> <<>>]

\* History of the last loop() run: `flip` alternates on every run; the rest
\* is what the run saw (isRunning, video size, clocks) and what detect() did;
\* prevThrew tells whether the inference of the run before threw.
NoTick ==
    [flip |-> FALSE, ran |-> FALSE, detectCalled |-> FALSE, inferred |-> FALSE,
     inf |-> NoInference, ret |-> Null, mounted |-> TRUE, ready |-> FALSE,
     width |-> 0, height |-> 0, sawTime |-> 0, prevTime |-> -1,
     prevThrew |-> FALSE]

Init ==
    /\ appState = IDLE
    /\ appLog = <<>>
    /\ treeState = CHAOS
    /\ gesture = Null
    /\ errorMsg = ""
    /\ mounted = TRUE
    /\ videoRef = TRUE
    /\ requestRef = 0
    /\ rafPending = {}
    /\ pc = "idle"
    /\ handLandmarker = FALSE
    /\ video = FALSE
    /\ lastVideoTime = -1
    /\ isRunning = FALSE
    /\ srcObject = FALSE
    /\ tracksLive = FALSE
    /\ videoWidth = 0
    /\ videoHeight = 0
    /\ currentTime = 0
    /\ hasGetUserMedia \in BOOLEAN
    /\ lastCommand = "none"
    /\ tick = NoTick
    /\ caught = Null
    /\ initCalls = 0
    /\ progress = [a \in Animators |-> Zero]
    /\ frames = 0
    /\ formedRun = 0
    /\ manifest = Null
    /\ fetchPc = "pending"
    /\ files = <<>>
    /\ items = <<>>
    /\ photos = <<>>
    /\ preloads = <<NewPreload(<<>>)>>
    /\ photosMounted = TRUE
    /\ selectedPhoto = Null
    /\ lastClick = "none"
    /\ camera = [position |-> InitialPosition, target |-> Null, seen |-> Null, frames |-> 0]
    /\ conePoint = Null

\* ------------------------------------------------------------ App.loop
\* requestAnimationFrame hands out a handle that is not pending.
NewHandle(pending) == CHOOSE h \in 1..(Cardinality(pending) + 1) : h \notin pending

RescheduleTwice(result, pending) ==
    pending \cup {NewHandle(pending), NewHandle(pending \cup {NewHandle(pending)})}
RescheduleOnResult(result, pending) ==
    IF result = Null THEN pending ELSE pending \cup {NewHandle(pending)}
\* requestAnimationFrame(loop) at the end of a running loop(), after
\* detect() has returned `result`.
Reschedule(result, pending) == pending \cup {NewHandle(pending)}

\* Variant: open and closed exchanged.
TreeStateForSwapped(result, old) ==
    IF result.detected
    THEN (IF result.isOpen THEN FORMED ELSE CHAOS)
    ELSE old

\* Variant: the detected flag is not consulted.
TreeStateForUnguarded(result, old) ==
    IF result.isOpen THEN CHAOS ELSE FORMED

\* The tree state the loop sets for a result (unchanged when not detected).
TreeStateFor(result, old) ==
    IF result.detected
    THEN (IF result.isOpen THEN CHAOS ELSE FORMED)
    ELSE old

\* The gesture the loop stores for a result.
GestureFor(result) ==
    [kind |-> "gesture", isOpen |-> result.isOpen,
     position |-> [x |-> result.x, y |-> result.y], detected |-> result.detected]

\* One execution of loop(), with `pending` the frame callbacks still scheduled,
\* `running` the value of visionService.isRunning at the call, and `inf` what
\* the inference does if detect() reaches it.
Loop(inf, pending, running) ==
    IF running
    THEN LET d == Detect(inf, running)
             result == d.ret
         IN /\ lastVideoTime' = d.lvt
            /\ IF result # Null
               THEN /\ gesture' = GestureFor(result)
                    /\ treeState' = TreeStateFor(result, treeState)
                    /\ lastCommand' = IF result.detected
                                      THEN (IF result.isOpen THEN "open" ELSE "closed")
                                      ELSE lastCommand
               ELSE UNCHANGED <<gesture, treeState, lastCommand>>
            /\ requestRef' = NewHandle(pending)
            /\ rafPending' = Reschedule(result, pending)
            /\ tick' = [flip |-> ~tick.flip, ran |-> TRUE, detectCalled |-> TRUE,
                        inferred |-> d.inferred,
                        inf |-> IF d.inferred THEN inf ELSE NoInference,
                        ret |-> result, mounted |-> mounted,
                        ready |-> handLandmarker /\ video,
                        width |-> videoWidth, height |-> videoHeight,
                        sawTime |-> currentTime, prevTime |-> lastVideoTime,
                        prevThrew |-> tick.inferred /\ tick.inf.kind = "throw"]
    ELSE /\ rafPending' = pending
         /\ tick' = [flip |-> ~tick.flip, ran |-> TRUE, detectCalled |-> FALSE,
                     inferred |-> FALSE, inf |-> NoInference,
                     ret |-> Null, mounted |-> mounted,
                     ready |-> handLandmarker /\ video,
                     width |-> videoWidth, height |-> videoHeight,
                     sawTime |-> currentTime, prevTime |-> lastVideoTime,
                     prevThrew |-> tick.inferred /\ tick.inf.kind = "throw"]
         /\ UNCHANGED <<lastVideoTime, gesture, treeState, lastCommand, requestRef>>

\* The browser runs a scheduled frame callback.
LoopTick ==
    \E h \in rafPending, inf \in Inferences :
        /\ Loop(inf, rafPending \ {h}, isRunning)
        /\ UNCHANGED <<appState, appLog, errorMsg, mounted, videoRef, pc, handLandmarker,
                       video, isRunning, videoVars, hasGetUserMedia, animVars, sceneVars, photoVars, overlayVars, caught, initCalls>>

\* ------------------------------------------------- App.startExperience
\* Variant: SecurityError is not counted as a camera error.
CameraRelatedNoSecurity(e) == e.name \in CameraErrorNames \ {"SecurityError"}

\* cameraRelated: the caught error carries one of the five names.
CameraRelated(e) == e.name \in CameraErrorNames

\* Variant: the message is shown as thrown, without the fallback text.
ErrorMessageRaw(e) == e.message

\* setErrorMsg's argument: e?.message || 'Failed to start camera ...'.
ErrorMessage(e) ==
    IF e.message # "" THEN e.message
    ELSE "Failed to start camera or load AI models."

CatchKeepsLoading(e) ==
    /\ caught' = e
    /\ pc' = "done"
    /\ UNCHANGED <<appState, appLog, errorMsg>>
\* The catch block: the app state and message for a caught error.
Catch(e) ==
    /\ caught' = e
    /\ IF CameraRelated(e)
       THEN /\ appState' = RUNNING
            /\ appLog' = Append(appLog, RUNNING)
            /\ errorMsg' = ""
       ELSE /\ errorMsg' = ErrorMessage(e)
            /\ appState' = ERROR
            /\ appLog' = Append(appLog, ERROR)
    /\ pc' = "done"

\* Click on the start button (rendered only in IDLE), up to the first await.
StartExperience ==
    /\ mounted /\ appState = IDLE /\ pc = "idle"
    /\ errorMsg' = ""
    /\ IF ~hasGetUserMedia
       THEN /\ appState' = RUNNING
            /\ appLog' = appLog \o <<LOADING, RUNNING>>
            /\ pc' = "done"
            /\ initCalls' = initCalls
       ELSE /\ appState' = LOADING
            /\ appLog' = Append(appLog, LOADING)
            /\ pc' = "initialize"
            /\ initCalls' = initCalls + 1
    /\ UNCHANGED <<treeState, gesture, mounted, videoRef, requestRef, rafPending,
                   serviceVars, videoVars, hasGetUserMedia, animVars, sceneVars, photoVars, overlayVars, lastCommand, tick, caught>>

\* visionService.initialize() resolves; startExperience goes on to
\* startCamera (up to its getUserMedia await) or, with no video element,
\* straight to RUNNING and loop().
InitializeResolve ==
    /\ pc = "initialize"
    /\ handLandmarker' = TRUE
    /\ IF videoRef
       THEN /\ video' = TRUE
            /\ pc' = "getUserMedia"
            /\ UNCHANGED <<appState, appLog, treeState, gesture, requestRef, rafPending,
                           lastVideoTime, lastCommand, tick>>
       ELSE /\ appState' = RUNNING
            /\ appLog' = Append(appLog, RUNNING)
            /\ pc' = "done"
            /\ \E inf \in Inferences : Loop(inf, rafPending, isRunning)
            /\ UNCHANGED video
    /\ UNCHANGED <<errorMsg, mounted, videoRef, isRunning, videoVars,
                   hasGetUserMedia, animVars, sceneVars, photoVars, overlayVars, caught, initCalls>>

\* visionService.initialize() rejects.
InitializeReject ==
    /\ pc = "initialize"
    /\ \E e \in Errors : Catch(e)
    /\ UNCHANGED <<treeState, gesture, mounted, videoRef, requestRef, rafPending,
                   serviceVars, videoVars, hasGetUserMedia, animVars, sceneVars, photoVars, overlayVars, lastCommand, tick, initCalls>>

\* getUserMedia resolves with a live stream, attached to the video element.
GetUserMediaResolve ==
    /\ pc = "getUserMedia"
    /\ srcObject' = TRUE
    /\ tracksLive' = TRUE
    /\ pc' = "loadeddata"
    /\ UNCHANGED <<appVars, mounted, videoRef, requestRef, rafPending, serviceVars,
                   videoWidth, videoHeight, currentTime, hasGetUserMedia, animVars, sceneVars, photoVars, overlayVars, histVars>>

\* getUserMedia rejects; startCamera rethrows to startExperience's catch.
GetUserMediaReject ==
    /\ pc = "getUserMedia"
    /\ \E e \in Errors : Catch(e)
    /\ UNCHANGED <<treeState, gesture, mounted, videoRef, requestRef, rafPending,
                   serviceVars, videoVars, hasGetUserMedia, animVars, sceneVars, photoVars, overlayVars, lastCommand, tick, initCalls>>

\* The video reports loadeddata (or readyState >= 2); play() is called.
LoadedData ==
    /\ pc = "loadeddata"
    /\ tracksLive
    /\ \E w \in {0, 640}, h \in {0, 480} :
        /\ videoWidth' = w
        /\ videoHeight' = h
    /\ pc' = "play"
    /\ UNCHANGED <<appVars, mounted, videoRef, requestRef, rafPending, serviceVars,
                   srcObject, tracksLive, currentTime, hasGetUserMedia, animVars, sceneVars, photoVars, overlayVars, histVars>>

\* play() resolves: isRunning = true, startCamera returns, the app goes to
\* RUNNING and calls loop().
PlayResolve ==
    /\ pc = "play"
    /\ isRunning' = TRUE
    /\ appState' = RUNNING
    /\ appLog' = Append(appLog, RUNNING)
    /\ pc' = "done"
    /\ \E inf \in Inferences : Loop(inf, rafPending, TRUE)
    /\ UNCHANGED <<errorMsg, mounted, videoRef, handLandmarker, video, videoVars,
                   hasGetUserMedia, animVars, sceneVars, photoVars, overlayVars, caught, initCalls>>

\* play() rejects (for instance the autoplay policy: NotAllowedError).
PlayReject ==
    /\ pc = "play"
    /\ \E e \in Errors : Catch(e)
    /\ UNCHANGED <<treeState, gesture, mounted, videoRef, requestRef, rafPending,
                   serviceVars, videoVars, hasGetUserMedia, animVars, sceneVars, photoVars, overlayVars, lastCommand, tick, initCalls>>

\* The playing video shows its next frame: the clock advances and the frame
\* has its dimensions.
VideoFrame ==
    /\ srcObject /\ tracksLive
    /\ pc \in {"play", "done"}
    /\ currentTime < MaxVideoTime
    /\ currentTime' = currentTime + 1
    /\ videoWidth' = 640
    /\ videoHeight' = 480
    /\ UNCHANGED <<appVars, refVars, serviceVars, srcObject, tracksLive,
                   hasGetUserMedia, animVars, sceneVars, photoVars, overlayVars, histVars>>

\* ------------------------------------------------------ manual overrides
\* The two buttons, rendered only in RUNNING.
ClickUnleash ==
    /\ mounted /\ appState = RUNNING
    /\ treeState' = CHAOS
    /\ lastCommand' = "UNLEASH"
    /\ UNCHANGED <<appState, appLog, gesture, errorMsg, refVars, serviceVars, videoVars,
                   hasGetUserMedia, animVars, sceneVars, photoVars, overlayVars, tick, caught, initCalls>>

ClickForm ==
    /\ mounted /\ appState = RUNNING
    /\ treeState' = FORMED
    /\ lastCommand' = "FORM"
    /\ UNCHANGED <<appState, appLog, gesture, errorMsg, refVars, serviceVars, videoVars,
                   hasGetUserMedia, animVars, sceneVars, photoVars, overlayVars, tick, caught, initCalls>>

\* ---------------------------------------------- VisionService.stop, unmount
\* stop(): whether the stream's tracks are live afterwards.
StopTracks(hasVideo, hasStream, live) ==
    IF hasVideo /\ hasStream THEN FALSE ELSE live

\* The fields of the service that stop() reads or writes, with whether the
\* call threw and whether it reached the tracks.
ServiceState ==
    [isRunning |-> isRunning, video |-> video, srcObject |-> srcObject,
     tracksLive |-> tracksLive, touched |-> FALSE, error |-> FALSE]

UnguardedSrcObject(s) ==
    IF s.video THEN [threw |-> FALSE, value |-> s.srcObject]
    ELSE [threw |-> TRUE, value |-> FALSE]
\* this.video && this.video.srcObject: srcObject is read only of a video
\* that is set.
GuardedSrcObject(s) ==
    IF s.video THEN [threw |-> FALSE, value |-> s.srcObject]
    ELSE [threw |-> FALSE, value |-> FALSE]

\* stop() applied to a service state.
Stop(s) ==
    LET cond == GuardedSrcObject(s)
    IN  [s EXCEPT !.isRunning = FALSE,
                  !.tracksLive = IF cond.threw THEN s.tracksLive
                                 ELSE StopTracks(s.video, s.srcObject, s.tracksLive),
                  !.touched = cond.value,
                  !.error = cond.threw]

\* The effect cleanup: cancel the stored frame handle, stop the service.
\* React clears the video ref of the unmounted element.
Unmount ==
    /\ mounted
    /\ mounted' = FALSE
    /\ videoRef' = FALSE
    /\ rafPending' = IF requestRef # 0 THEN rafPending \ {requestRef} ELSE rafPending
    /\ isRunning' = Stop(ServiceState).isRunning
    /\ tracksLive' = Stop(ServiceState).tracksLive
    /\ UNCHANGED <<appVars, requestRef, pc, handLandmarker, video, lastVideoTime,
                   srcObject, videoWidth, videoHeight, currentTime,
                   hasGetUserMedia, animVars, sceneVars, photoVars, overlayVars, histVars>>

\* ---------------------------------------------------------- render loop
\* One render frame: every animator's useFrame callback runs once, reading
\* the current tree state.  formedRun counts the frames rendered under FORMED
\* since all progress was 0 (-1 once a frame under CHAOS has interrupted).
RenderFrame ==
    /\ mounted
    /\ frames < MaxFrames
    /\ frames' = frames + 1
    /\ progress' = [a \in Animators |-> AnimatorFrame(a, progress[a], treeState)]
    /\ formedRun' = IF treeState = FORMED
                    THEN (IF formedRun >= 0 THEN formedRun + 1 ELSE -1)
                    ELSE (IF formedRun = 0 THEN 0 ELSE -1)
    /\ UNCHANGED <<appVars, refVars, serviceVars, videoVars, hasGetUserMedia, histVars,
                   photoVars, overlayVars, sceneVars>>

\* Scene's frame callback: the camera moves towards the target computed from
\* the gesture prop.
SceneFrame ==
    /\ mounted
    /\ camera.frames < MaxCameraFrames
    /\ camera' = [position |-> PositionLerp(camera.position, CameraTarget(Destructure(gesture))),
                  target |-> CameraTarget(Destructure(gesture)),
                  seen |-> gesture,
                  frames |-> camera.frames + 1]
    /\ UNCHANGED conePoint
    /\ UNCHANGED <<appVars, refVars, serviceVars, videoVars, hasGetUserMedia, histVars,
                   animVars, photoVars, overlayVars>>

\* The calls of getConePoint so far.
ConeCalls == IF conePoint = Null THEN 0 ELSE conePoint.calls

\* A call of getConePoint, as the useMemo of an animator makes for each of
\* its instances.
SampleConePoint ==
    /\ ConeCalls < MaxConeCalls
    /\ \E height \in ConeHeights, maxRadius \in ConeRadii, verticalBias \in ConeBiases,
          u1 \in UnitDraws, u3 \in SquareDraws, dir \in Directions :
        conePoint' = [height |-> height, maxRadius |-> maxRadius,
                      verticalBias |-> verticalBias, calls |-> ConeCalls + 1,
                      point |-> GetConePoint(height, maxRadius, verticalBias, u1, u3, dir)]
    /\ UNCHANGED camera
    /\ UNCHANGED <<appVars, refVars, serviceVars, videoVars, hasGetUserMedia, histVars,
                   animVars, photoVars, overlayVars>>

\* ------------------------------------------------------- photo actions
\* The manifest effect's async body finishes: setFiles with the list or with
\* [] unless cancelled; the new files value re-runs the preload effect,
\* whose cleanup cancels the previous run.
ManifestResolve ==
    /\ fetchPc = "pending"
    /\ fetchPc' = "done"
    /\ \E m \in Manifests :
        /\ manifest' = m
        /\ IF photosMounted
           THEN /\ files' = ManifestFiles(m)
                /\ preloads' = Append([k \in 1..Len(preloads) |->
                                          [preloads[k] EXCEPT !.cancelled = TRUE]],
                                      NewPreload(ManifestFiles(m)))
           ELSE UNCHANGED <<files, preloads>>
    /\ UNCHANGED <<items, photos, photosMounted, overlayVars>>
    /\ UNCHANGED <<appVars, refVars, serviceVars, videoVars, hasGetUserMedia, histVars, animVars, sceneVars>>

\* Promise.all of one preload run settles: every image has loaded or failed;
\* setItems with the loaded ones unless cancelled, and the photos memo is
\* recomputed from the new items.
PreloadSettle ==
    /\ \E k \in 1..Len(preloads) :
        /\ ~preloads[k].settled
        /\ \E ok \in [1..Len(preloads[k].candidates) -> BOOLEAN] :
            LET cs == preloads[k].candidates
                loaded == [j \in 1..Len(cs) |-> LoadImage(cs[j], ok[j])]
            IN  /\ preloads' = [preloads EXCEPT ![k].settled = TRUE, ![k].ok = ok]
                /\ IF ~preloads[k].cancelled
                   THEN /\ items' = FilterLoaded(loaded)
                        /\ \E draws \in [1..Len(FilterLoaded(loaded)) -> RandomDraws] :
                               photos' = PhotosOf(FilterLoaded(loaded), draws)
                   ELSE UNCHANGED <<items, photos>>
    /\ UNCHANGED <<manifest, fetchPc, files, photosMounted, overlayVars>>
    /\ UNCHANGED <<appVars, refVars, serviceVars, videoVars, hasGetUserMedia, histVars, animVars, sceneVars>>

\* PolaroidPhotos unmounts: both effects' cleanups set their cancelled flag.
UnmountPhotos ==
    /\ photosMounted
    /\ photosMounted' = FALSE
    /\ preloads' = [k \in 1..Len(preloads) |-> [preloads[k] EXCEPT !.cancelled = TRUE]]
    /\ UNCHANGED <<manifest, fetchPc, files, items, photos, overlayVars>>
    /\ UNCHANGED <<appVars, refVars, serviceVars, videoVars, hasGetUserMedia, histVars, animVars, sceneVars>>

\* Pointer down on a photo ornament: onSelect, which is setSelectedPhoto.
\* The overlay covers the canvas while it is shown.
SelectPhoto ==
    /\ photosMounted
    /\ selectedPhoto = Null
    /\ \E k \in 1..Len(photos) :
        selectedPhoto' = [src |-> photos[k].src, caption |-> photos[k].caption]
    /\ lastClick' = "photo"
    /\ UNCHANGED photoVars
    /\ UNCHANGED <<appVars, refVars, serviceVars, videoVars, hasGetUserMedia, histVars, animVars, sceneVars>>

\* Click on the overlay outside the photo card.
ClickBackdrop ==
    /\ selectedPhoto # Null
    /\ selectedPhoto' = Null
    /\ lastClick' = "backdrop"
    /\ UNCHANGED photoVars
    /\ UNCHANGED <<appVars, refVars, serviceVars, videoVars, hasGetUserMedia, histVars, animVars, sceneVars>>

\* Click on the photo card: its handler stops propagation, so the overlay's
\* handler does not run.
ClickCard ==
    /\ selectedPhoto # Null
    /\ lastClick' = "card"
    /\ UNCHANGED selectedPhoto
    /\ UNCHANGED photoVars
    /\ UNCHANGED <<appVars, refVars, serviceVars, videoVars, hasGetUserMedia, histVars, animVars, sceneVars>>

\* ------------------------------------------------------- specification
\* Spec: the start action, the detection loop, the overrides and unmount.
Next ==
    \/ StartExperience
    \/ InitializeResolve
    \/ InitializeReject
    \/ GetUserMediaResolve
    \/ GetUserMediaReject
    \/ LoadedData
    \/ PlayResolve
    \/ PlayReject
    \/ VideoFrame
    \/ LoopTick
    \/ ClickUnleash
    \/ ClickForm
    \/ Unmount

Spec == Init /\ [][Next]_vars

\* SpecLive: Spec with every awaited step of startExperience settling: each
\* of initialize(), getUserMedia(), the loadeddata wait and play() resolves
\* or rejects once it is awaited.
SpecLive ==
    /\ Init /\ [][Next]_vars
    /\ WF_vars(InitializeResolve \/ InitializeReject)
    /\ WF_vars(GetUserMediaResolve \/ GetUserMediaReject)
    /\ WF_vars(LoadedData)
    /\ WF_vars(PlayResolve \/ PlayReject)

\* SpecAnim: the render loop driven by the start action and the overrides.
NextAnim ==
    \/ StartExperience
    \/ ClickUnleash
    \/ ClickForm
    \/ RenderFrame

SpecAnim == Init /\ [][NextAnim]_vars

\* SpecCamera: the start action and the detection loop with the camera
\* granted, together with the Scene's frame callback.
NextCamera ==
    \/ StartExperience
    \/ InitializeResolve
    \/ GetUserMediaResolve
    \/ LoadedData
    \/ PlayResolve
    \/ VideoFrame
    \/ LoopTick
    \/ SceneFrame

SpecCamera == Init /\ [][NextCamera]_vars

\* SpecCone: calls of getConePoint.
NextCone ==
    \/ SampleConePoint

SpecCone == Init /\ [][NextCone]_vars

\* SpecPhotos: the loading of the photo ornaments, with unmount.
NextPhotos ==
    \/ ManifestResolve
    \/ PreloadSettle
    \/ UnmountPhotos

SpecPhotos == Init /\ [][NextPhotos]_vars

\* SpecOverlay: the loaded photo ornaments and the full-size photo view.
NextOverlay ==
    \/ ManifestResolve
    \/ PreloadSettle
    \/ SelectPhoto
    \/ ClickBackdrop
    \/ ClickCard

SpecOverlay == Init /\ [][NextOverlay]_vars

\* ================================================================ claims
\* The tree state a command asks for.
CommandedState(cmd) ==
    IF cmd \in {"closed", "FORM"} THEN FORMED ELSE CHAOS

\* C1: the tree state is the one commanded by the most recent command
\* (detected closed hand or FORM: FORMED; detected open hand or UNLEASH:
\* CHAOS; no command yet: CHAOS).
C1_StateFollowsLastCommand == treeState = CommandedState(lastCommand)

C1_Witness ==
    /\ lastCommand = "open" /\ treeState = CHAOS
    /\ gesture # Null /\ gesture.detected /\ gesture.isOpen
    /\ lastVideoTime >= 1

ZeroGesture ==
    [kind |-> "gesture", isOpen |-> FALSE, position |-> [x |-> 0, y |-> 0],
     detected |-> FALSE]

\* C2: a detection frame whose result has detected = false leaves the tree
\* state unchanged and overwrites the gesture with (false, (0, 0), false).
C2_NotDetectedFrame ==
    [][(tick'.flip # tick.flip /\ tick'.ret # Null /\ ~tick'.ret.detected)
        => (treeState' = treeState /\ gesture' = ZeroGesture)]_vars

C2_Witness ==
    /\ tick.ret # Null /\ ~tick.ret.detected
    /\ lastCommand = "closed" /\ treeState = FORMED
    /\ gesture = ZeroGesture

\* The run of loop() recorded in t called detect() and detect() had no new
\* data: service not ready, video without size, timestamp already processed,
\* or the inference threw.
NoNewData(t) ==
    /\ t.detectCalled
    /\ \/ ~t.ready
       \/ t.width = 0 \/ t.height = 0
       \/ t.sawTime = t.prevTime
       \/ t.inf.kind = "throw"

\* C3: on a tick where detect() has no new data, the gesture reading and the
\* tree state keep their previous values.
C3_NoDataKeepsReading ==
    [][(tick'.flip # tick.flip /\ NoNewData(tick'))
        => (gesture' = gesture /\ treeState' = treeState)]_vars

C3_Witness ==
    /\ NoNewData(tick) /\ tick.inf.kind = "throw"
    /\ gesture # Null /\ gesture.detected

\* C4: once the App has unmounted, no frame callback is scheduled, detect()
\* does not run, and the camera tracks are stopped.
C4_TornDownAfterUnmount ==
    ~mounted =>
        /\ rafPending = {}
        /\ (tick.detectCalled => tick.mounted)
        /\ (srcObject => ~tracksLive)

\* --- progress values, for the statements about the animators
\* c^n.
RECURSIVE BigPow(_, _)
BigPow(c, n) == IF n = 0 THEN BigOne ELSE BigMulSmall(BigPow(c, n - 1), c)

\* 1 - (1 - sp)^n: the value of n updates p += (1 - p) * sp from p = 0.
Compound(sp, n) ==
    Reduce([num |-> BigSub(BigPow(sp.den, n), BigPow(sp.den - sp.num, n)),
            den |-> BigPow(sp.den, n)], sp.den)

One == [num |-> BigOne, den |-> BigOne]

\* C5: every animator advances by one update p += (dest - p) * speed per
\* render frame: after n frames under FORMED from p = 0 its progress is
\* 1 - (1 - speed)^n, and after the first frame an ornament set is at its
\* class speed (0.025 for balls, 0.015 for gifts).
C5_OneUpdatePerFrame ==
    /\ \A a \in Animators :
           formedRun >= 1 => progress[a] = Compound(Speed(a), formedRun)
    /\ formedRun = 1 =>
           /\ progress["ballGold"] = [num |-> <<25>>, den |-> <<0, 1>>]
           /\ progress["ballRed"] = [num |-> <<25>>, den |-> <<0, 1>>]
           /\ progress["gift"] = [num |-> <<15>>, den |-> <<0, 1>>]

\* C6: progress stays within [0,1] (a fraction of naturals, of which no
\* update takes more than the whole: speed <= 1), and a frame moves it toward
\* the destination of the tree state it was rendered under: not down under
\* FORMED, not up under CHAOS.
C6_ProgressBoundedMonotone ==
    /\ [](\A a \in Animators :
             /\ Speed(a).num <= Speed(a).den
             /\ RatLeq(Zero, progress[a])
             /\ RatLeq(progress[a], One))
    /\ [][frames' # frames =>
             \A a \in Animators :
                 /\ treeState = FORMED => RatLeq(progress[a], progress'[a])
                 /\ treeState = CHAOS => RatLeq(progress'[a], progress[a])]_vars

\* Frames were rendered under FORMED and then under CHAOS: every animator
\* has gone up and come down, and lies strictly inside the interval.
C6_Witness ==
    /\ frames >= 3 /\ formedRun = -1 /\ treeState = CHAOS
    /\ \A a \in Animators :
           /\ progress[a] # Zero
           /\ ~RatLeq(One, progress[a])

SlowAnimators == {"foliage", "photos", "topper"}

\* C7: for the animators of speed 0.02, after n frames under FORMED from
\* p = 0 the progress is 1 - 0.98^n, which is 0.02 after the first frame, and
\* it is strictly below 1.
C7_SlowAnimatorsCompound ==
    \A a \in SlowAnimators :
        /\ formedRun >= 1 =>
               /\ progress[a] = Compound([num |-> 20, den |-> BigBase], formedRun)
               /\ ~BigLeq(progress[a].den, progress[a].num)
        /\ formedRun = 1 => progress[a] = [num |-> <<20>>, den |-> <<0, 1>>]

\* Three frames under FORMED: p = 1 - 0.98^3 = 0.058808.
C7_Witness ==
    /\ formedRun = 3
    /\ \A a \in SlowAnimators :
           progress[a] = [num |-> <<808, 58>>, den |-> <<0, 0, 1>>]

\* The start action has ended in manual mode: no getUserMedia, or a caught
\* camera/permission error.
ManualMode ==
    /\ pc = "done"
    /\ \/ ~hasGetUserMedia
       \/ (caught # Null /\ caught.name \in CameraErrorNames)

\* C8: after a camera/permission failure or without getUserMedia the app is
\* RUNNING, no detection step has run or is scheduled, and the tree state has
\* been commanded by the manual overrides only.
C8_CameraFailureIsManualMode ==
    ManualMode =>
        /\ appState = RUNNING
        /\ ~isRunning /\ rafPending = {} /\ ~tick.detectCalled
        /\ lastCommand \in {"none", "FORM", "UNLEASH"}
        /\ treeState = CommandedState(lastCommand)

C8_Witness ==
    /\ ManualMode /\ caught # Null /\ caught.name = "SecurityError"
    /\ srcObject /\ treeState = FORMED

\* C9: after any other start failure the app is in ERROR with a non-empty
\* message; initialize() is called at most once; ERROR is never left.
C9_OtherFailureIsError ==
    /\ [](/\ (caught # Null /\ caught.name \notin CameraErrorNames)
              => (appState = ERROR /\ errorMsg # "")
          /\ initCalls <= 1)
    /\ [][appState = ERROR => appState' = ERROR]_vars

C9_Witness ==
    /\ caught # Null /\ caught.name = "TypeError" /\ caught.message = ""
    /\ appState = ERROR /\ initCalls = 1
    /\ errorMsg = "Failed to start camera or load AI models."

\* C10: with the service running on a decoded video, detect() calls the
\* inference exactly when the video timestamp differs from the last processed
\* one, returns null otherwise, and a frame without a hand gives a result with
\* detected = false.
C10_InferencePerNewTimestamp ==
    (tick.detectCalled /\ tick.ready /\ tick.width # 0 /\ tick.height # 0) =>
        /\ tick.inferred <=> (tick.sawTime # tick.prevTime)
        /\ ~tick.inferred => tick.ret = Null
        /\ (tick.inferred /\ tick.inf.kind = "results" /\ tick.inf.landmarks = <<>>)
            => (tick.ret # Null /\ ~tick.ret.detected)

C10_Witness ==
    /\ tick.detectCalled /\ tick.width # 0 /\ tick.height # 0
    /\ tick.sawTime = tick.prevTime /\ ~tick.inferred
    /\ gesture = ZeroGesture

\* The average wrist-to-fingertip distance of each hand of Hands, in
\* thousandths, as the hands were built.
AvgDistOf(h) ==
    IF h = MkHand(500, 800, 0, -300) THEN 300
    ELSE IF h = MkHand(200, 500, 100, 0) THEN 100
    ELSE IF h = MkHand(800, 400, -150, 200) THEN 250
    ELSE IF h = MkFingers(500, 300, <<0, 300, 300, 300, 300>>) THEN 240
    ELSE 260

\* The last loop tick classified a hand.
ClassifiedHand ==
    /\ tick.inferred /\ tick.inf.kind = "results" /\ Len(tick.inf.landmarks) > 0

\* C11: for a detected hand isOpen is true exactly when the average
\* wrist-to-fingertip distance is strictly greater than 0.25: 0.30 is open,
\* 0.10 is closed and exactly 0.25 is closed.
C11_OpenIffAverageAboveThreshold ==
    ClassifiedHand =>
        /\ tick.ret # Null /\ tick.ret.detected
        /\ tick.ret.isOpen = (AvgDistOf(tick.inf.landmarks[1]) > 250)
        /\ gesture.isOpen = tick.ret.isOpen

\* The hand of average distance exactly 0.25 was classified as closed.
C11_Witness ==
    /\ ClassifiedHand
    /\ tick.inf.landmarks[1] = MkHand(800, 400, -150, 200)
    /\ ~gesture.isOpen /\ gesture.detected /\ treeState = FORMED

\* ------------------------------------------------------- C12
\* Band i (from 0) of the n equal bands of [minY, maxY], as numerators over
\* 2 * n.
BandLow(i, n) == 2 * n * MinY + 2 * (MaxY - MinY) * i
InBand(y, i, n) ==
    /\ y.den = 2 * n
    /\ BandLow(i, n) <= y.num
    /\ y.num <= BandLow(i + 1, n)

\* C12: for every number n >= 1 of loaded photos, the sampled height of
\* photo i lies inside band i of the n equal bands of [minY, maxY], so no two
\* photos fall in the same band.
C12_PhotoInOwnBand ==
    \A k \in 1..Len(photos) : InBand(photos[k].y, k - 1, Len(photos))

\* ------------------------------------------------------- C13
\* The manifest has been answered and every preload run has settled.
PreloadFinished ==
    /\ photosMounted
    /\ fetchPc = "done"
    /\ \A k \in 1..Len(preloads) : preloads[k].settled

\* The positions of the manifest entries whose image loaded in the last run.
LoadedEntries ==
    LET last == preloads[Len(preloads)]
    IN  { j \in 1..Len(ManifestFiles(manifest)) : last.ok[j] }
NthLoaded(k) ==
    CHOOSE j \in LoadedEntries : Cardinality({ i \in LoadedEntries : i <= j }) = k

\* C13: once preloading has finished the photo ornaments are exactly the
\* manifest entries whose image loaded, in manifest order, one per loadable
\* entry; a manifest that is missing or cannot be read yields none.
C13_PhotosAreLoadedEntries ==
    PreloadFinished =>
        /\ Len(photos) = Cardinality(LoadedEntries)
        /\ \A k \in 1..Len(photos) :
            /\ photos[k].src.file = manifest.list[NthLoaded(k)]
            /\ photos[k].id = NthLoaded(k)
            /\ photos[k].caption = manifest.list[NthLoaded(k)].stem
        /\ manifest.kind \notin {"array", "object"} => photos = <<>>

C13_Witness ==
    /\ PreloadFinished
    /\ manifest = [kind |-> "object", list |-> FileList(3)]
    /\ preloads[Len(preloads)].ok = <<TRUE, FALSE, TRUE>>
    /\ Len(photos) = 2
    /\ photos[2].id = 3

\* ------------------------------------------------------- C14
\* The position (x, y) of a gesture reading, (0, 0) without a reading.
GesturePosition(g) ==
    IF g = Null THEN [x |-> Num(0, 1), y |-> Num(0, 1)]
    ELSE [x |-> Num(g.position.x, PosDen), y |-> Num(g.position.y, PosDen)]

\* C14: on every render frame the camera's target is
\* (sin(0.5x) * 25, 6 + 5y, cos(0.5x) * 25) for the position (x, y) of the
\* gesture reading, (0, 0) without a reading, and the camera's target and
\* position are defined numbers.
C14_CameraFollowsHand ==
    camera.frames > 0 =>
        /\ camera.target = CameraTarget(GesturePosition(camera.seen))
        /\ \A c \in {"x", "y", "z"} :
            /\ camera.target[c] # NaN
            /\ camera.position[c] # NaN

\* ------------------------------------------------------- C15
\* The full-size photo view is rendered while selectedPhoto is set.
OverlayOpen == selectedPhoto # Null

\* C15: the full-size photo view is open exactly when a photo has been
\* selected and not yet dismissed, and a click anywhere on it, on the
\* backdrop or on the photo card, closes it.
C15_ClickAnywhereCloses ==
    /\ lastClick = "photo" => OverlayOpen
    /\ lastClick = "none" => ~OverlayOpen
    /\ lastClick \in {"backdrop", "card"} => ~OverlayOpen

\* ------------------------------------------------------- C16
\* C16: stop() with the camera never acquired (no video, or no stream
\* attached) raises no error and touches no track, and a second teardown
\* leaves the service as the first one did: isRunning false, tracks stopped.
C16_TeardownIdempotentAndSafe ==
    LET once == Stop(ServiceState)
        twice == Stop([once EXCEPT !.touched = FALSE])
    IN  /\ (~video \/ ~srcObject) => (~once.error /\ ~once.touched
                                       /\ once.tracksLive = tracksLive)
        /\ ~once.isRunning
        /\ (video /\ srcObject) => ~once.tracksLive
        /\ ~twice.error
        /\ [twice EXCEPT !.touched = FALSE] = [once EXCEPT !.touched = FALSE]

C16_Witness ==
    /\ ~mounted
    /\ pc # "idle"
    /\ ~video
    /\ ~isRunning
    /\ Stop(ServiceState) = ServiceState

\* ------------------------------------------------------- C17
\* A loop() run that found the service running.
RunningTick == tick'.flip # tick.flip /\ tick'.detectCalled

\* C17: while the service is running every loop tick schedules the next
\* frame callback, whatever detect() returned or caught, and the tick after
\* a thrown inference classifies a frame with a new timestamp.
C17_LoopSurvivesInferenceError ==
    /\ [][RunningTick => (requestRef' \in rafPending'
                           /\ (tick'.inferred /\ tick'.inf.kind = "throw" => tick'.ret = Null))]_vars
    /\ [](( /\ tick.prevThrew /\ tick.detectCalled /\ tick.ready
             /\ tick.width # 0 /\ tick.height # 0
             /\ tick.sawTime # tick.prevTime )
           => ( /\ tick.inferred
                /\ tick.inf.kind = "results" => tick.ret = Classify(tick.inf) ))

C17_Witness ==
    /\ tick.prevThrew
    /\ tick.inferred
    /\ tick.inf.kind = "results"
    /\ Len(tick.inf.landmarks) > 0
    /\ gesture # Null /\ gesture.detected
    /\ requestRef \in rafPending

\* ------------------------------------------------------- C19
\* C19: the hand-landmark model is called only when the model handle is
\* set, the service is running, and the video has non-zero width and height.
C19_InferenceOnlyWhenReady ==
    tick.inferred =>
        /\ tick.ready
        /\ handLandmarker
        /\ initCalls > 0
        /\ tick.detectCalled
        /\ tick.width # 0
        /\ tick.height # 0

C19_Witness ==
    /\ tick.inferred
    /\ handLandmarker
    /\ isRunning
    /\ videoWidth # 0
    /\ videoHeight # 0
    /\ appState = RUNNING

\* ------------------------------------------------------- C20
\* C20: at most one frame callback of loop() is pending in every reachable
\* state, and it is the one whose handle requestRef holds.
C20_AtMostOneLoop ==
    /\ Cardinality(rafPending) <= 1
    /\ rafPending # {} => rafPending = {requestRef}

C20_Witness ==
    /\ rafPending = {requestRef}
    /\ tick.detectCalled
    /\ tick.inferred
    /\ lastVideoTime >= 1
    /\ isRunning

\* ------------------------------------------------------- C18
\* The sampled height of the last point: its y coordinate with the
\* centring and the bias taken back.
SampledY ==
    FracSub(FracAdd(conePoint.point.y, FracDiv(conePoint.height, Frac(2, 1))),
            conePoint.verticalBias)

\* C18: for every height > 0, maxRadius >= 0 and verticalBias, the sampled
\* height y of a point returned by getConePoint is in [0, height), and the
\* point's horizontal distance from the axis is at most
\* (1 - y / height) * maxRadius.
C18_ConePointInsideCone ==
    conePoint # Null =>
        LET p == conePoint.point
            bound == FracMul(FracSub(Frac(1, 1), FracDiv(SampledY, conePoint.height)),
                             conePoint.maxRadius)
        IN  /\ FracLeq(Frac(0, 1), SampledY)
            /\ FracLess(SampledY, conePoint.height)
            /\ FracLeq(Frac(0, 1), bound)
            /\ FracLeq(FracAdd(FracMul(p.x, p.x), FracMul(p.z, p.z)), FracMul(bound, bound))

C18_Witness ==
    /\ conePoint # Null
    /\ conePoint.height = Frac(12, 1)
    /\ conePoint.maxRadius = Frac(18, 5)
    /\ conePoint.verticalBias = Frac(1, 1)
    /\ SampledY = Frac(54, 5)
    /\ conePoint.point.x = Frac(-162, 625)

\* ------------------------------------------------------- C21
\* The setAppState calls an App may have made so far.
LifecyclePrefixes ==
    {<<>>, <<LOADING>>, <<LOADING, RUNNING>>, <<LOADING, ERROR>>}

\* C21: the app state only moves IDLE -> LOADING -> RUNNING or ERROR; the
\* start action happens only in IDLE; RUNNING and ERROR are never left; READY
\* is never reached; overrides and gesture-driven updates of the tree state
\* happen only in RUNNING; and, every awaited step settling, an App that is
\* still mounted leaves LOADING.
C21_Lifecycle ==
    /\ [](/\ appLog \in LifecyclePrefixes
          /\ appState = (IF appLog = <<>> THEN IDLE ELSE appLog[Len(appLog)])
          /\ appState # READY)
    /\ [][/\ (pc = "idle" /\ pc' # "idle") => appState = IDLE
          /\ appState \in {RUNNING, ERROR} => appState' = appState
          /\ (treeState' # treeState \/ lastCommand' # lastCommand
               \/ gesture' # gesture) => appState' = RUNNING
          /\ lastCommand' \in {"UNLEASH", "FORM"} /\ lastCommand' # lastCommand
               => appState = RUNNING]_vars
    /\ (appState = LOADING) ~> (appState \in {RUNNING, ERROR} \/ ~mounted)

C21_Witness ==
    /\ appLog = <<LOADING, RUNNING>>
    /\ mounted
    /\ hasGetUserMedia
    /\ isRunning
    /\ lastCommand = "FORM"
    /\ treeState = FORMED
    /\ gesture # Null
====
